---------------------------- MODULE Spec2Model ----------------------------
(***************************************************************************)
(* Model of the two request handlers of the repository:                    *)
(*   - the Express handler app.post("/chat") of server/index.js, which     *)
(*     resolves a thread, appends the user message, starts a run, polls    *)
(*     the run and returns the thread's messages;                          *)
(*   - the SvelteKit search proxy src/routes/api/search/+server.ts (POST   *)
(*     and OPTIONS), which validates the Origin, validates query and page, *)
(*     calls the upstream search API and keeps the PDF-looking results.    *)
(* Strings whose content the code inspects (origins, URLs, titles, pages)  *)
(* are sequences of one-character strings, so that startsWith, endsWith,   *)
(* includes, split, replace, trim, toLowerCase, String and parseInt are    *)
(* computed as the code computes them.                                     *)
(***************************************************************************)
EXTENDS Integers, Sequences, FiniteSets, TLC

VARIABLES
    \* ---- /chat: one entry per in-flight request
    pc,          \* position of the handler
    threadId,    \* req.body.threadId
    thread_id,   \* the local thread_id
    status,      \* status.status of the last retrieve ("none" before the first)
    calls,       \* the upstream calls the handler has issued, in order
    response,    \* what res.json / res.status(500).json sent
    \* ---- search proxy: one request
    env,         \* NODE_ENV, BRAVE_SEARCH_API_KEY, ALLOWED_ORIGINS
    spc,         \* position of the handler
    method,      \* "POST" or "OPTIONS"
    origin,      \* request.headers.get('origin')
    cors,        \* corsValidation
    bodyRead,    \* request.json() has been called
    query,       \* the destructured query
    page,        \* the destructured page
    validatedPage,
    fetches,     \* the upstream search calls issued (their offsets), in order
    upstream,    \* the upstream response
    sresp        \* the Response returned

chatVars == <<pc, threadId, thread_id, status, calls, response>>
searchVars == <<env, spc, method, origin, cors, bodyRead, query, page,
                validatedPage, fetches, upstream, sresp>>
vars == <<chatVars, searchVars>>

-----------------------------------------------------------------------------
(* Bounds of the model *)

\* the retrieve-run calls one request may issue before the model stops it
MaxPolls == 3

-----------------------------------------------------------------------------
(* /chat *)

Requests == {"r1", "r2"}

\* values of req.body.threadId: absent, the empty string, an existing thread
Undefined == "<undefined>"
ThreadIdInputs == {Undefined, "", "thread_A"}

\* JavaScript truthiness of a threadId value, as tested by `!thread_id`
Truthy(v) == v \notin {Undefined, ""}

\* the identifier the upstream assigns to a thread created for request r
NewThreadId(r) == "thread_new_" \o r

\* the statuses a retrieve-run call may report
RunStatuses == {"queued", "in_progress", "completed", "failed", "cancelled", "expired"}

\* the statuses the upstream may report after having reported `last`:
\* a terminal status never changes, a run in progress is not queued again
NextStatuses(last) ==
    CASE last = "none"        -> RunStatuses
      [] last = "queued"      -> RunStatuses
      [] last = "in_progress" -> RunStatuses \ {"queued"}
      [] OTHER                -> {last}

\* the lists messages.list may return
MessageLists == {<<>>, <<"m2", "m1">>}

\* setTimeout(r, 1500)
Interval == 1500

NoResponse == [code |-> 0, threadId |-> "", messages |-> <<>>, error |-> FALSE]

Call(op, tid, ok, st, data) ==
    [op |-> op, tid |-> tid, ok |-> ok, status |-> st, data |-> data]

NumCalls(r, op) == Cardinality({i \in 1..Len(calls[r]) : calls[r][i].op = op})

ChatInit ==
    /\ pc = [r \in Requests |-> "idle"]
    /\ threadId = [r \in Requests |-> Undefined]
    /\ thread_id = [r \in Requests |-> Undefined]
    /\ status = [r \in Requests |-> "none"]
    /\ calls = [r \in Requests |-> <<>>]
    /\ response = [r \in Requests |-> NoResponse]

\* variant: a thread is created for every request
NeedsThreadMut(tid) == TRUE
\* `if (!thread_id)`
NeedsThread(tid) == ~Truthy(tid)

\* variant: the loop also ends on in_progress
LoopContinuesMut(st) == st \notin {"completed", "in_progress"}
\* `while (status.status !== "completed")`
LoopContinues(st) == st # "completed"

\* res.json({ threadId: thread_id, messages: messages.data })
ChatResponse(tid, data) ==
    [code |-> 200, threadId |-> tid, messages |-> data, error |-> FALSE]

\* res.status(500).json({ error: err.message })
ErrorResponse == [code |-> 500, threadId |-> "", messages |-> <<>>, error |-> TRUE]

\* an awaited call that throws: the catch block answers and the handler ends
Throw(r, call) ==
    /\ calls' = [calls EXCEPT ![r] = Append(@, call)]
    /\ pc' = [pc EXCEPT ![r] = "done"]
    /\ response' = [response EXCEPT ![r] = ErrorResponse]

\* const { message, threadId } = req.body; let thread_id = threadId; if (!thread_id)
Receive(r) ==
    /\ pc[r] = "idle"
    /\ \E tid \in ThreadIdInputs :
        /\ threadId' = [threadId EXCEPT ![r] = tid]
        /\ thread_id' = [thread_id EXCEPT ![r] = tid]
        /\ pc' = [pc EXCEPT ![r] = IF NeedsThread(tid) THEN "createThread" ELSE "createMessage"]
    /\ UNCHANGED <<status, calls, response, searchVars>>

\* const thread = await client.beta.threads.create(); thread_id = thread.id
CreateThread(r) ==
    /\ pc[r] = "createThread"
    /\ \/ /\ calls' = [calls EXCEPT ![r] = Append(@, Call("createThread", "", TRUE, "none", <<>>))]
          /\ thread_id' = [thread_id EXCEPT ![r] = NewThreadId(r)]
          /\ pc' = [pc EXCEPT ![r] = "createMessage"]
          /\ UNCHANGED response
       \/ /\ Throw(r, Call("createThread", "", FALSE, "none", <<>>))
          /\ UNCHANGED thread_id
    /\ UNCHANGED <<threadId, status, searchVars>>

\* variant: a failed create-message call is ignored
CreateMessageMut(r) ==
    /\ pc[r] = "createMessage"
    /\ \E ok \in BOOLEAN :
        calls' = [calls EXCEPT ![r] = Append(@, Call("createMessage", thread_id[r], ok, "none", <<>>))]
    /\ pc' = [pc EXCEPT ![r] = "createRun"]
    /\ UNCHANGED <<threadId, thread_id, status, response, searchVars>>
\* await client.beta.threads.messages.create(thread_id, {...})
CreateMessage(r) ==
    /\ pc[r] = "createMessage"
    /\ \/ /\ calls' = [calls EXCEPT ![r] = Append(@, Call("createMessage", thread_id[r], TRUE, "none", <<>>))]
          /\ pc' = [pc EXCEPT ![r] = "createRun"]
          /\ UNCHANGED response
       \/ Throw(r, Call("createMessage", thread_id[r], FALSE, "none", <<>>))
    /\ UNCHANGED <<threadId, thread_id, status, searchVars>>

\* const run = await client.beta.threads.runs.create(thread_id, {...})
CreateRun(r) ==
    /\ pc[r] = "createRun"
    /\ \/ /\ calls' = [calls EXCEPT ![r] = Append(@, Call("createRun", thread_id[r], TRUE, "none", <<>>))]
          /\ pc' = [pc EXCEPT ![r] = "retrieve"]
          /\ UNCHANGED response
       \/ Throw(r, Call("createRun", thread_id[r], FALSE, "none", <<>>))
    /\ UNCHANGED <<threadId, thread_id, status, searchVars>>

\* status = await client.beta.threads.runs.retrieve(thread_id, run.id)
RetrieveRun(r) ==
    /\ pc[r] = "retrieve"
    /\ NumCalls(r, "retrieve") < MaxPolls
    /\ \/ \E st \in NextStatuses(status[r]) :
            /\ calls' = [calls EXCEPT ![r] = Append(@, Call("retrieve", thread_id[r], TRUE, st, <<>>))]
            /\ status' = [status EXCEPT ![r] = st]
            /\ pc' = [pc EXCEPT ![r] = "sleep"]
            /\ UNCHANGED response
       \/ /\ Throw(r, Call("retrieve", thread_id[r], FALSE, "none", <<>>))
          /\ UNCHANGED status
    /\ UNCHANGED <<threadId, thread_id, searchVars>>

\* await new Promise((r) => setTimeout(r, 1500)); } while (status.status !== "completed")
Sleep(r) ==
    /\ pc[r] = "sleep"
    /\ pc' = [pc EXCEPT ![r] = IF LoopContinues(status[r]) THEN "retrieve" ELSE "list"]
    /\ UNCHANGED <<threadId, thread_id, status, calls, response, searchVars>>

\* const messages = await client.beta.threads.messages.list(thread_id); res.json(...)
ListMessages(r) ==
    /\ pc[r] = "list"
    /\ \/ \E data \in MessageLists :
            /\ calls' = [calls EXCEPT ![r] = Append(@, Call("list", thread_id[r], TRUE, "none", data))]
            /\ response' = [response EXCEPT ![r] = ChatResponse(thread_id[r], data)]
            /\ pc' = [pc EXCEPT ![r] = "done"]
       \/ Throw(r, Call("list", thread_id[r], FALSE, "none", <<>>))
    /\ UNCHANGED <<threadId, thread_id, status, searchVars>>

-----------------------------------------------------------------------------
(* Strings as sequences of characters *)

StartsWith(s, p) == Len(s) >= Len(p) /\ SubSeq(s, 1, Len(p)) = p

EndsWith(s, p) == Len(s) >= Len(p) /\ SubSeq(s, Len(s) - Len(p) + 1, Len(s)) = p

\* String.prototype.indexOf, 1-based; 0 when p does not occur in s
IndexOf(s, p) ==
    LET at == {i \in 1..(Len(s) - Len(p) + 1) : SubSeq(s, i, i + Len(p) - 1) = p}
    IN  IF at = {} THEN 0 ELSE CHOOSE i \in at : \A j \in at : i <= j

Includes(s, p) == IndexOf(s, p) # 0

\* String.prototype.replace with a string pattern: the first occurrence only
ReplaceFirst(s, p, by) ==
    LET i == IndexOf(s, p)
    IN  IF i = 0 THEN s
        ELSE SubSeq(s, 1, i - 1) \o by \o SubSeq(s, i + Len(p), Len(s))

UpperChars == <<"A","B","C","D","E","F","G","H","I","J","K","L","M","N","O","P","Q","R","S","T","U","V","W","X","Y","Z">>
LowerChars == <<"a","b","c","d","e","f","g","h","i","j","k","l","m","n","o","p","q","r","s","t","u","v","w","x","y","z">>

ToLowerChar(c) ==
    IF \E i \in 1..Len(UpperChars) : UpperChars[i] = c
    THEN LowerChars[CHOOSE i \in 1..Len(UpperChars) : UpperChars[i] = c]
    ELSE c

ToLowerCase(s) == [i \in 1..Len(s) |-> ToLowerChar(s[i])]

\* String.prototype.split with a one-character separator
RECURSIVE Split(_, _)
Split(s, sep) ==
    LET i == IndexOf(s, <<sep>>)
    IN  IF i = 0 THEN <<s>>
        ELSE <<SubSeq(s, 1, i - 1)>> \o Split(SubSeq(s, i + 1, Len(s)), sep)

WhiteSpace == {" ", "\t", "\n"}

\* String.prototype.trim
RECURSIVE Trim(_)
Trim(s) ==
    IF s = <<>> THEN s
    ELSE IF s[1] \in WhiteSpace THEN Trim(Tail(s))
    ELSE IF s[Len(s)] \in WhiteSpace THEN Trim(SubSeq(s, 1, Len(s) - 1))
    ELSE s

Digits == <<"0","1","2","3","4","5","6","7","8","9">>

DigitValue(c) == (CHOOSE i \in 1..10 : Digits[i] = c) - 1

IsDigit(c) == \E i \in 1..10 : Digits[i] = c

\* String(n) for an integer n
RECURSIVE NatToString(_)
NatToString(n) ==
    IF n < 10 THEN <<Digits[n + 1]>>
    ELSE NatToString(n \div 10) \o <<Digits[(n % 10) + 1]>>

IntToString(n) == IF n < 0 THEN <<"-">> \o NatToString(-n) ELSE NatToString(n)

NaN == [nan |-> TRUE, n |-> 0]

\* the value of the longest prefix of digits of s, after acc
RECURSIVE DigitsValue(_, _)
DigitsValue(s, acc) ==
    IF s = <<>> \/ ~IsDigit(s[1]) THEN acc
    ELSE DigitsValue(Tail(s), acc * 10 + DigitValue(s[1]))

\* parseInt(s, 10): leading white space, an optional sign, then digits
ParseInt(s) ==
    LET t == IF Trim(s) = <<>> THEN <<>>
             ELSE SubSeq(s, IndexOf(s, <<Trim(s)[1]>>), Len(s))
        neg == t # <<>> /\ t[1] = "-"
        u == IF t # <<>> /\ t[1] \in {"-", "+"} THEN Tail(t) ELSE t
    IN  IF u = <<>> \/ ~IsDigit(u[1]) THEN NaN
        ELSE [nan |-> FALSE, n |-> IF neg THEN -DigitsValue(u, 0) ELSE DigitsValue(u, 0)]

\* the first position of s holding one of the characters cs, Len(s) + 1 when none
FirstOf(s, cs) ==
    LET at == {i \in 1..Len(s) : s[i] \in cs}
    IN  IF at = {} THEN Len(s) + 1 ELSE CHOOSE i \in at : \A j \in at : i <= j

SchemeChars ==
    {LowerChars[i] : i \in 1..26} \cup {UpperChars[i] : i \in 1..26}

\* new URL(s) for the inputs of this model: scheme "://" host [":" port] [path]
\* ["?" query] ["#" fragment] parses; a string with no scheme throws.
\* hostname is lower-cased by the parser; pathname is "/" when the path is empty.
ParseURL(s) ==
    LET i == IndexOf(s, <<":","/","/">>)
        rest == SubSeq(s, i + 3, Len(s))
        authority == SubSeq(rest, 1, FirstOf(rest, {"/", "?", "#"}) - 1)
        host == SubSeq(authority, 1, FirstOf(authority, {":"}) - 1)
        after == SubSeq(rest, Len(authority) + 1, Len(rest))
        path == SubSeq(after, 1, FirstOf(after, {"?", "#"}) - 1)
    IN  IF i < 2 \/ (\E k \in 1..(i - 1) : s[k] \notin SchemeChars)
           \/ host = <<>> \/ (\E k \in 1..Len(host) : host[k] \in WhiteSpace)
        THEN [ok |-> FALSE, hostname |-> <<>>, pathname |-> <<>>]
        ELSE [ok |-> TRUE, hostname |-> ToLowerCase(host),
              pathname |-> IF path = <<>> THEN <<"/">> ELSE path]

-----------------------------------------------------------------------------
(* Search proxy: configuration *)

\* request.headers.get('origin') of a request without an Origin header
NullOrigin == <<"<null>">>

\* env.ALLOWED_ORIGINS: unset, or a comma-separated list
NoEnvValue == <<"<unset>">>
AllowedOriginsEnvs == {NoEnvValue, <<"h","t","t","p","s",":","/","/","p",".","i","o"," ",","," ","h","t","t","p","s",":","/","/","q",".","i","o">>}

Envs == [nodeEnv : {"development", "production"},
         hasApiKey : BOOLEAN,
         allowedOrigins : AllowedOriginsEnvs]

\* const ALLOWED_ORIGINS = env.ALLOWED_ORIGINS ? split(',').map(trim) : [defaults]
ALLOWED_ORIGINS(e) ==
    IF e.allowedOrigins \notin {NoEnvValue, <<>>}
    THEN LET parts == Split(e.allowedOrigins, ",")
         IN  [i \in 1..Len(parts) |-> Trim(parts[i])]
    ELSE << <<"h","t","t","p",":","/","/","l","o","c","a","l","h","o","s","t",":","5","1","7","3">>, <<"h","t","t","p",":","/","/","l","o","c","a","l","h","o","s","t",":","4","1","7","3">> >>

SeqIncludes(list, x) == \E i \in 1..Len(list) : list[i] = x

\* variant: every subdomain of leed.my is allowed
isAllowedOriginMut(o) ==
    LET parsed == ParseURL(o)
    IN  parsed.ok /\ (parsed.hostname = <<"l","e","e","d",".","m","y">> \/ EndsWith(parsed.hostname, <<".","l","e","e","d",".","m","y">>))
\* function isAllowedOrigin(origin)
isAllowedOrigin(o) ==
    LET parsed == ParseURL(o)
        hostname == ToLowerCase(parsed.hostname)
        allowedSubdomains == << <<"a","p","p">>, <<"b","e","t","a">>, <<"s","t","a","g","i","n","g">>, <<"w","w","w">> >>
    IN  IF ~parsed.ok THEN FALSE
        ELSE IF hostname = <<"l","e","e","d",".","m","y">> THEN TRUE
        ELSE IF EndsWith(hostname, <<".","l","e","e","d",".","m","y">>)
             THEN SeqIncludes(allowedSubdomains, ReplaceFirst(hostname, <<".","l","e","e","d",".","m","y">>, <<>>))
        ELSE FALSE

\* function makeCorsHeaders(origin); NoHeaders is `headers: undefined`
NoHeaders == [set |-> FALSE, allowOrigin |-> <<>>]
makeCorsHeaders(o) == [set |-> TRUE, allowOrigin |-> o]

\* function validateOriginAndGetCorsHeaders(request)
validateOriginAndGetCorsHeaders(e, o) ==
    IF o = NullOrigin \/ o = <<>> THEN [valid |-> TRUE, headers |-> NoHeaders]
    ELSE IF e.nodeEnv = "development" /\ StartsWith(o, <<"h","t","t","p",":","/","/","l","o","c","a","l","h","o","s","t",":">>)
         THEN [valid |-> TRUE, headers |-> makeCorsHeaders(o)]
    ELSE IF isAllowedOrigin(o) THEN [valid |-> TRUE, headers |-> makeCorsHeaders(o)]
    ELSE IF ~SeqIncludes(ALLOWED_ORIGINS(e), o) THEN [valid |-> FALSE, headers |-> NoHeaders]
    ELSE [valid |-> TRUE, headers |-> makeCorsHeaders(o)]

\* the Origin header values of the requests
Origins ==
    {NullOrigin, <<>>,
     <<"h","t","t","p","s",":","/","/","l","e","e","d",".","m","y">>, <<"h","t","t","p","s",":","/","/","a","p","p",".","l","e","e","d",".","m","y">>, <<"h","t","t","p","s",":","/","/","W","W","W",".","L","E","E","D",".","M","Y">>,
     <<"h","t","t","p","s",":","/","/","e","v","i","l",".","l","e","e","d",".","m","y">>, <<"h","t","t","p","s",":","/","/","e","v","i","l","l","e","e","d",".","m","y">>, <<"h","t","t","p","s",":","/","/","l","e","e","d",".","m","y",".","e","v","i","l",".","c","o","m">>,
     <<"h","t","t","p","s",":","/","/","e","v","i","l",".","c","o","m">>, <<"n","u","l","l">>,
     <<"h","t","t","p",":","/","/","l","o","c","a","l","h","o","s","t",":","5","1","7","3">>, <<"h","t","t","p",":","/","/","l","o","c","a","l","h","o","s","t",":","9","9","9","9">>, <<"h","t","t","p","s",":","/","/","p",".","i","o">>}

-----------------------------------------------------------------------------
(* Search proxy: request body *)

\* the values of `query` in the parsed body
Queries ==
    {[kind |-> "undefined", text |-> <<>>],
     [kind |-> "number", text |-> <<"4","2">>],
     [kind |-> "string", text |-> <<>>],
     [kind |-> "string", text |-> <<" "," ">>],
     [kind |-> "string", text |-> <<"a","i"," ","s","a","f","e","t","y">>],
     [kind |-> "string", text |-> <<" ","p","d","f"," ">>]}

\* the query of a request whose body has not been (or could not be) parsed
NoQuery == [kind |-> "unset", text |-> <<>>]

PageNumbers == {-3, 0, 1, 2, 999, 1000, 1001, 1500}
PageStrings == { <<"a","b","c">>, <<"7">> }

\* the values of `page` in the parsed body
Pages ==
    {[kind |-> "undefined", n |-> 0, s |-> <<>>], [kind |-> "null", n |-> 0, s |-> <<>>]}
    \cup {[kind |-> "number", n |-> i, s |-> <<>>] : i \in PageNumbers}
    \cup {[kind |-> "string", n |-> 0, s |-> t] : t \in PageStrings}

NoPage == [kind |-> "unset", n |-> 0, s |-> <<>>]

\* const { query, page = 1 } = ...: the default replaces undefined only
DefaultPage(p) == IF p.kind = "undefined" THEN [kind |-> "number", n |-> 1, s |-> <<>>] ELSE p

\* String(page)
StringOfPage(p) ==
    CASE p.kind = "number" -> IntToString(p.n)
      [] p.kind = "null"   -> <<"n","u","l","l">>
      [] OTHER             -> p.s

\* const parsedPage = parseInt(String(page), 10);
\* isNaN(parsedPage) || parsedPage < 1 ? 1 : Math.min(parsedPage, 1000)
ValidatePage(p) ==
    LET parsedPage == ParseInt(StringOfPage(DefaultPage(p)))
    IN  IF parsedPage.nan \/ parsedPage.n < 1 THEN 1
        ELSE IF parsedPage.n < 1000 THEN parsedPage.n ELSE 1000

\* !query || typeof query !== 'string' || query.trim().length === 0
QueryInvalid(q) ==
    \/ q.kind \in {"undefined", "null"}
    \/ q.kind = "string" /\ q.text = <<>>
    \/ q.kind # "string"
    \/ Len(Trim(q.text)) = 0

\* const offset = (validatedPage - 1) * 10
PageSize == 10
Offset(vp) == (vp - 1) * PageSize

-----------------------------------------------------------------------------
(* Search proxy: upstream results *)

Result(title, url, description, snippet) ==
    [title |-> title, url |-> url, description |-> description, snippet |-> snippet]

\* the results the upstream may return, with distinct URLs
Pool ==
    << Result(<<"A","n","n","u","a","l"," ","r","e","p","o","r","t">>, <<"h","t","t","p","s",":","/","/","x",".","c","o","m","/","r","e","p","o","r","t",".","p","d","f">>, <<"f","i","g","u","r","e","s">>, <<>>),
       Result(<<"V","i","e","w","e","r">>, <<"h","t","t","p","s",":","/","/","x",".","c","o","m","/","r","e","p","o","r","t",".","p","d","f","/","v","i","e","w">>, <<"f","i","g","u","r","e","s">>, <<"s">>),
       Result(<<"A","n","n","u","a","l"," ","r","e","p","o","r","t">>, <<"h","t","t","p","s",":","/","/","x",".","c","o","m","/","r","e","p","o","r","t">>, <<"f","i","g","u","r","e","s">>, <<>>),
       Result(<<"M","y"," ","P","D","F">>, <<"h","t","t","p","s",":","/","/","x",".","c","o","m","/","d","o","c">>, <<>>, <<"s">>),
       Result(<<"D","o","w","n","l","o","a","d">>, <<"h","t","t","p","s",":","/","/","x",".","c","o","m","/","g","e","t","?","f","=","a",".","p","d","f">>, <<"f","i","g","u","r","e","s">>, <<>>),
       Result(<<>>, <<"h","t","t","p","s",":","/","/","x",".","c","o","m","/","A","/","P","A","P","E","R",".","P","D","F">>, <<"f","i","g","u","r","e","s">>, <<>>),
       Result(<<"N","o","t","e","s">>, <<"h","t","t","p","s",":","/","/","x",".","c","o","m","/","n","o","t","e","s">>, <<"a"," ","P","d","f"," ","f","i","l","e">>, <<>>),
       Result(<<"H","o","m","e">>, <<"h","t","t","p","s",":","/","/","p","d","f",".","e","x","a","m","p","l","e","/","i","n","d","e","x",".","h","t","m","l","#","a",".","p","d","f">>, <<"f","i","g","u","r","e","s">>, <<>>),
       Result(<<"S","c","a","n">>, <<"x",".","c","o","m","/","s","c","a","n",".","p","d","f",".","h","t","m","l">>, <<"f","i","g","u","r","e","s">>, <<>>) >>

PoolSize == Len(Pool)

\* the n results of the pool from position s on, cyclically
Window(s, n) == [i \in 1..n |-> Pool[((s + i - 2) % PoolSize) + 1]]

\* the longest short list of the upstream, and the number of long lists
\* (two rounds of the pool, more than MaxResults of them PDF-looking)
MaxShort == 2
MaxLongStarts == 2
LongLen == 2 * PoolSize

UpstreamLists ==
    {Window(s, n) : s \in 1..PoolSize, n \in 0..MaxShort}
    \cup {Window(s, LongLen) : s \in 1..MaxLongStarts}

\* the parsed upstream body: no `web`, `web` without `results`, or results
\* with total_results present (57) or absent (0)
NoData == [web |-> FALSE, hasResults |-> FALSE, results |-> <<>>, total_results |-> 0]
UpstreamData ==
    {NoData, [NoData EXCEPT !.web = TRUE]}
    \cup {[web |-> TRUE, hasResults |-> TRUE, results |-> l, total_results |-> t] :
            l \in UpstreamLists, t \in {0, 57}}

\* the statuses of the upstream response
UpstreamStatuses == {200, 401, 429, 404, 503}

NoUpstream == [status |-> 0, parsed |-> FALSE, data |-> NoData]

\* variant: without the path-segment check
isPDFUrlMut(url) ==
    LET parsedUrl == ParseURL(url)
    IN  IF parsedUrl.ok THEN EndsWith(ToLowerCase(parsedUrl.pathname), <<".","p","d","f">>)
        ELSE Includes(ToLowerCase(url), <<".","p","d","f">>)
\* function isPDFUrl(url)
isPDFUrl(url) ==
    LET parsedUrl == ParseURL(url)
        pathname == ToLowerCase(parsedUrl.pathname)
        pathSegments == Split(pathname, "/")
    IN  IF parsedUrl.ok
        THEN IF EndsWith(pathname, <<".","p","d","f">>) THEN TRUE
             ELSE IF \E i \in 1..Len(pathSegments) : EndsWith(pathSegments[i], <<".","p","d","f">>)
                  THEN TRUE
             ELSE FALSE
        ELSE Includes(ToLowerCase(url), <<".","p","d","f">>)

\* the callback of data.web.results.filter
KeepResult(result) ==
    IF isPDFUrl(result.url) THEN TRUE
    ELSE Includes(ToLowerCase(result.title), <<"p","d","f">>)
         \/ Includes(ToLowerCase(result.description), <<"p","d","f">>)

\* the callback of .map
CleanResult(result) ==
    [title |-> IF result.title # <<>> THEN result.title ELSE <<"P","D","F"," ","D","o","c","u","m","e","n","t">>,
     url |-> result.url,
     description |-> IF result.description # <<>> THEN result.description ELSE result.snippet,
     snippet |-> result.snippet]

\* .slice(0, 10)
MaxResults == 10
Slice(list, n) == SubSeq(list, 1, IF Len(list) < n THEN Len(list) ELSE n)

\* const pdfResults = data.web.results.filter(...).map(...).slice(0, 10)
PdfResults(results) ==
    LET kept == SelectSeq(results, KeepResult)
    IN  Slice([i \in 1..Len(kept) |-> CleanResult(kept[i])], MaxResults)

-----------------------------------------------------------------------------
(* Search proxy: responses *)

NoSearchResponse ==
    [code |-> 0, fields |-> {}, results |-> <<>>, totalResults |-> 0,
     query |-> <<>>, page |-> 0, headers |-> NoHeaders]

\* new Response(null, { status, headers })
EmptyResponse(code, headers) == [NoSearchResponse EXCEPT !.code = code, !.headers = headers]

\* json({ error: ... }, { status, headers })
JsonError(code, headers) ==
    [NoSearchResponse EXCEPT !.code = code, !.fields = {"error"}, !.headers = headers]

\* variant: every upstream error is answered with 500
UpstreamErrorMut(st, headers) == JsonError(500, headers)
\* the response to an upstream response that is not ok
UpstreamError(st, headers) ==
    IF st = 401 THEN JsonError(401, headers)
    ELSE IF st = 429 THEN JsonError(429, headers)
    ELSE JsonError(st, headers)

\* the response to a parsed upstream body
SearchResponse(data, q, vp, headers) ==
    IF ~data.web \/ ~data.hasResults
    THEN [NoSearchResponse EXCEPT !.code = 200, !.fields = {"results", "totalResults", "query"},
                                  !.query = Trim(q.text), !.headers = headers]
    ELSE LET pdfResults == PdfResults(data.results)
         IN  [code |-> 200, fields |-> {"results", "totalResults", "query", "page"},
              results |-> pdfResults,
              totalResults |-> IF data.total_results # 0 THEN data.total_results
                               ELSE Len(pdfResults),
              query |-> Trim(q.text), page |-> vp, headers |-> headers]

-----------------------------------------------------------------------------
(* Search proxy: the handlers *)

SearchInit ==
    /\ env \in Envs
    /\ spc = "idle"
    /\ method = "none"
    /\ origin = NullOrigin
    /\ cors = [valid |-> FALSE, headers |-> NoHeaders]
    /\ bodyRead = FALSE
    /\ query = NoQuery
    /\ page = NoPage
    /\ validatedPage = 0
    /\ fetches = <<>>
    /\ upstream = NoUpstream
    /\ sresp = NoSearchResponse

Respond(r) == sresp' = r /\ spc' = "done"

\* POST and OPTIONS: validateOriginAndGetCorsHeaders(request) and the 403
HandleRequest ==
    /\ spc = "idle"
    /\ \E m \in {"POST", "OPTIONS"}, o \in Origins :
        LET corsValidation == validateOriginAndGetCorsHeaders(env, o)
        IN  /\ method' = m
            /\ origin' = o
            /\ cors' = corsValidation
            /\ IF ~corsValidation.valid THEN Respond(EmptyResponse(403, NoHeaders))
               ELSE IF m = "OPTIONS" THEN Respond(EmptyResponse(200, corsValidation.headers))
               ELSE spc' = "readBody" /\ UNCHANGED sresp
    /\ UNCHANGED <<env, bodyRead, query, page, validatedPage, fetches, upstream, chatVars>>

\* POST: await request.json(), page validation, query and API key checks
ReadBody ==
    /\ spc = "readBody"
    /\ bodyRead' = TRUE
    /\ \/ \* request.json() throws, or the body is not an object
          /\ Respond(JsonError(500, cors.headers))
          /\ UNCHANGED <<query, page, validatedPage>>
       \/ \E q \in Queries, p \in Pages :
            /\ query' = q
            /\ page' = p
            /\ validatedPage' = ValidatePage(p)
            /\ IF QueryInvalid(q) THEN Respond(JsonError(400, cors.headers))
               ELSE IF ~env.hasApiKey THEN Respond(JsonError(500, cors.headers))
               ELSE spc' = "fetch" /\ UNCHANGED sresp
    /\ UNCHANGED <<env, method, origin, cors, fetches, upstream, chatVars>>

\* POST: await fetch(braveApiUrl, ...) and the mapping of a response that is not ok
Fetch ==
    /\ spc = "fetch"
    /\ fetches' = Append(fetches, Offset(validatedPage))
    /\ \/ \* fetch rejects (network error, the 10 s timeout)
          /\ Respond(JsonError(500, cors.headers))
          /\ upstream' = [NoUpstream EXCEPT !.status = -1]
       \/ \E st \in UpstreamStatuses :
            /\ upstream' = [NoUpstream EXCEPT !.status = st]
            /\ IF st # 200 THEN Respond(UpstreamError(st, cors.headers))
               ELSE spc' = "readUpstream" /\ UNCHANGED sresp
    /\ UNCHANGED <<env, method, origin, cors, bodyRead, query, page, validatedPage, chatVars>>

\* POST: await response.json(), the filter and the response
ReadUpstream ==
    /\ spc = "readUpstream"
    /\ \/ \* response.json() throws
          /\ Respond(JsonError(500, cors.headers))
          /\ UNCHANGED upstream
       \/ \E data \in UpstreamData :
            /\ upstream' = [upstream EXCEPT !.parsed = TRUE, !.data = data]
            /\ Respond(SearchResponse(data, query, validatedPage, cors.headers))
    /\ UNCHANGED <<env, method, origin, cors, bodyRead, query, page, validatedPage, fetches, chatVars>>

-----------------------------------------------------------------------------
(* Specifications *)

\* the search variables while only /chat runs
SearchIdle ==
    /\ env = [nodeEnv |-> "production", hasApiKey |-> TRUE, allowedOrigins |-> NoEnvValue]
    /\ spc = "off"
    /\ method = "none"
    /\ origin = NullOrigin
    /\ cors = [valid |-> FALSE, headers |-> NoHeaders]
    /\ bodyRead = FALSE
    /\ query = NoQuery
    /\ page = NoPage
    /\ validatedPage = 0
    /\ fetches = <<>>
    /\ upstream = NoUpstream
    /\ sresp = NoSearchResponse

Init == ChatInit /\ SearchIdle

Next ==
    \E r \in Requests :
        \/ Receive(r)
        \/ CreateThread(r)
        \/ CreateMessage(r)
        \/ CreateRun(r)
        \/ RetrieveRun(r)
        \/ Sleep(r)
        \/ ListMessages(r)

Spec == Init /\ [][Next]_vars

SearchSpecInit == ChatInit /\ SearchInit

SearchNext ==
    \/ HandleRequest
    \/ ReadBody
    \/ Fetch
    \/ ReadUpstream

SearchSpec == SearchSpecInit /\ [][SearchNext]_vars

-----------------------------------------------------------------------------
(* Properties of /chat *)

IndicesOf(r, op) == {i \in 1..Len(calls[r]) : calls[r][i].op = op}

FailureStatuses == {"failed", "cancelled", "expired"}

TerminalStatuses == FailureStatuses \cup {"completed"}

CeilDiv(a, b) == (a + b - 1) \div b

\* a maximum wait of one polling interval
MaxWait == Interval

PollLimit == CeilDiv(MaxWait, Interval) + 1

\* C1: every request issues at most ceil(maxWait / interval) + 1 retrieve-run
\* calls, whatever statuses the upstream reports.
C1_PollingBounded == \A r \in Requests : NumCalls(r, "retrieve") <= PollLimit

\* C2: a retrieve-run call that reports failed, cancelled or expired is the
\* last upstream call of the request: no further retrieve-run, no
\* list-messages, and the request is never answered with a result.
C2_FailureStopsPolling ==
    \A r \in Requests : \A i \in IndicesOf(r, "retrieve") :
        (calls[r][i].ok /\ calls[r][i].status \in FailureStatuses)
            => /\ i = Len(calls[r])
               /\ IndicesOf(r, "list") = {}
               /\ response[r].code # 200

\* C3: list-messages is called at most once, directly after the retrieve-run
\* call that reported completed; no retrieve-run call follows a completed
\* one; a request that saw completed and has ended has called list-messages
\* exactly once; and the messages of a result are the list that call returned,
\* in its order.
C3_CompletedThenList ==
    \A r \in Requests :
        LET log == calls[r]
            listAt == IndicesOf(r, "list")
            completedAt == {i \in IndicesOf(r, "retrieve") : log[i].status = "completed"}
        IN  /\ Cardinality(listAt) <= 1
            /\ \A i \in listAt : i - 1 \in completedAt
            /\ \A i \in completedAt : \A j \in (i + 1)..Len(log) : log[j].op # "retrieve"
            /\ (completedAt # {} /\ pc[r] = "done") => Cardinality(listAt) = 1
            /\ pc[r] = "list" => completedAt # {}
            /\ response[r].code = 200 =>
                   \E i \in listAt : log[i].ok /\ response[r].messages = log[i].data

\* C3 witness: a request that saw completed returned a list of two messages.
C3_Witness ==
    \E r \in Requests :
        /\ response[r].code = 200
        /\ response[r].messages = <<"m2", "m1">>
        /\ NumCalls(r, "retrieve") >= 2

\* C4: a request carrying a thread identifier never calls create-thread and
\* keeps the identifier; a request carrying none calls create-thread exactly
\* once before any other call; every other call of the request, and the
\* threadId of its result, use that one identifier.  (An empty threadId is
\* falsy and counts as carrying none.)
C4_OneThreadPerExchange ==
    \A r \in Requests : pc[r] # "idle" =>
        LET log == calls[r]
            created == IndicesOf(r, "createThread")
        IN  /\ Truthy(threadId[r]) => created = {} /\ thread_id[r] = threadId[r]
            /\ ~Truthy(threadId[r]) =>
                   /\ created \subseteq {1}
                   /\ pc[r] # "createThread" => created = {1}
                   /\ (created = {1} /\ log[1].ok) => thread_id[r] = NewThreadId(r)
            /\ \A i \in 1..Len(log) : log[i].op # "createThread" =>
                   log[i].tid = thread_id[r] /\ Truthy(log[i].tid)
            /\ response[r].code = 200 => response[r].threadId = thread_id[r]

\* C4 witness: one request with a thread identifier and one without both
\* got their result.
C4_Witness ==
    \E r1, r2 \in Requests :
        /\ Truthy(threadId[r1]) /\ response[r1].code = 200
        /\ threadId[r2] = Undefined /\ response[r2].code = 200
        /\ response[r2].threadId = NewThreadId(r2)

\* a run the request created and has not yet seen in a terminal status
ActiveRun(r) == pc[r] \in {"retrieve", "sleep"} /\ status[r] \notin TerminalStatuses

\* C5: a request never issues create-run on a thread on which another
\* request has an active run.
C5_OneActiveRunPerThread ==
    [][\A r \in Requests :
          (pc[r] = "createRun" /\ Len(calls'[r]) > Len(calls[r])) =>
              ~\E r2 \in Requests \ {r} : ActiveRun(r2) /\ thread_id[r2] = thread_id[r]]_vars

Rank(op) ==
    CASE op = "createThread"  -> 1
      [] op = "createMessage" -> 2
      [] op = "createRun"     -> 3
      [] op = "retrieve"      -> 4
      [] op = "list"          -> 5

\* C10: the calls of a request are, in order, create-thread (at most once, only
\* first), one create-message, one create-run, retrieve-run calls, and
\* list-messages only directly after a retrieve-run that reported completed;
\* a failed call is the last call and is answered with an error; a result is
\* returned only after a successful list-messages.
C10_CallOrder ==
    \A r \in Requests :
        LET log == calls[r]
            n == Len(log)
        IN  /\ n > 0 => Rank(log[1].op) \in {1, 2}
            /\ \A i \in 1..(n - 1) :
                   /\ log[i].ok
                   /\ Rank(log[i + 1].op) = Rank(log[i].op) + 1
                      \/ (log[i].op = "retrieve" /\ log[i + 1].op = "retrieve")
                   /\ log[i + 1].op = "list" => log[i].status = "completed"
            /\ (n > 0 /\ ~log[n].ok) => pc[r] = "done" /\ response[r] = ErrorResponse
            /\ response[r].code = 200 => n > 0 /\ log[n].op = "list" /\ log[n].ok
            /\ response[r].error => n > 0 /\ ~log[n].ok
            /\ pc[r] = "done" => response[r] # NoResponse

\* C10 witness: one request got its result after polling twice and the other
\* was answered with an error after its create-run call failed.
C10_Witness ==
    \E r1, r2 \in Requests :
        /\ response[r1].code = 200 /\ NumCalls(r1, "retrieve") = 2
        /\ response[r2].error
        /\ calls[r2][Len(calls[r2])].op = "createRun"

-----------------------------------------------------------------------------
(* Properties of the search proxy *)

\* the Origin values of the model, classified by hand
LocalhostOrigins == { <<"h","t","t","p",":","/","/","l","o","c","a","l","h","o","s","t",":","5","1","7","3">>, <<"h","t","t","p",":","/","/","l","o","c","a","l","h","o","s","t",":","9","9","9","9">> }
LeedOrigins == { <<"h","t","t","p","s",":","/","/","l","e","e","d",".","m","y">>, <<"h","t","t","p","s",":","/","/","a","p","p",".","l","e","e","d",".","m","y">>, <<"h","t","t","p","s",":","/","/","W","W","W",".","L","E","E","D",".","M","Y">> }
ListedOrigins(e) ==
    IF e.allowedOrigins = NoEnvValue
    THEN { <<"h","t","t","p",":","/","/","l","o","c","a","l","h","o","s","t",":","5","1","7","3">>, <<"h","t","t","p",":","/","/","l","o","c","a","l","h","o","s","t",":","4","1","7","3">> }
    ELSE { <<"h","t","t","p","s",":","/","/","p",".","i","o">>, <<"h","t","t","p","s",":","/","/","q",".","i","o">> }

\* an Origin header that is present and matches no allowed origin
ForeignOrigin(e, o) ==
    /\ o \notin {NullOrigin, <<>>}
    /\ ~(e.nodeEnv = "development" /\ o \in LocalhostOrigins)
    /\ o \notin LeedOrigins
    /\ o \notin ListedOrigins(e)

\* C6: a POST or OPTIONS request whose Origin header is present (and not
\* empty) and matches no allowed origin is answered with 403 and no body; its
\* body is not read and no upstream call is made.
C6_ForeignOriginRejected ==
    (method # "none" /\ ForeignOrigin(env, origin)) =>
        /\ spc = "done"
        /\ sresp.code = 403 /\ sresp.fields = {} /\ ~sresp.headers.set
        /\ ~bodyRead
        /\ fetches = <<>>

\* C6 witness: a POST from a subdomain of leed.my that is not allowed was
\* answered with 403.
C6_Witness ==
    /\ method = "POST" /\ origin = <<"h","t","t","p","s",":","/","/","e","v","i","l",".","l","e","e","d",".","m","y">>
    /\ sresp.code = 403

\* the page the claim expects for a supplied page
ExpectedPage(p) ==
    CASE p.kind = "number" /\ p.n \in 1..1000 -> p.n
      [] p.kind = "number" /\ p.n > 1000      -> 1000
      [] p.kind = "string" /\ p.s = <<"7">>     -> 7
      [] OTHER                                -> 1

\* C7: the validated page is the supplied page when that is an integer in
\* [1, 1000], 1 when it is omitted, not numeric or below 1, and 1000 above
\* 1000; every upstream call carries the offset (validated page - 1) * 10;
\* and every successful response of POST carries the validated page as `page`.
C7_PageValidated ==
    (method = "POST" /\ query # NoQuery) =>
        /\ validatedPage = ExpectedPage(page)
        /\ validatedPage \in 1..1000
        /\ \A i \in 1..Len(fetches) : fetches[i] = (validatedPage - 1) * 10
        /\ sresp.code = 200 => "page" \in sresp.fields /\ sresp.page = validatedPage

UrlsOf(list) == [i \in 1..Len(list) |-> list[i].url]

FirstTen(list) == [i \in 1..(IF Len(list) < 10 THEN Len(list) ELSE 10) |-> list[i]]

\* the URLs of the pool whose path ends in .pdf or has a segment ending in
\* .pdf, or whose title or description contains "pdf"
ClaimedPdfUrls ==
    { <<"h","t","t","p","s",":","/","/","x",".","c","o","m","/","r","e","p","o","r","t",".","p","d","f">>, <<"h","t","t","p","s",":","/","/","x",".","c","o","m","/","r","e","p","o","r","t",".","p","d","f","/","v","i","e","w">>,
      <<"h","t","t","p","s",":","/","/","x",".","c","o","m","/","d","o","c">>, <<"h","t","t","p","s",":","/","/","x",".","c","o","m","/","A","/","P","A","P","E","R",".","P","D","F">>, <<"h","t","t","p","s",":","/","/","x",".","c","o","m","/","n","o","t","e","s">> }

\* the URLs of the pool that do not parse and contain ".pdf"
UnparsedPdfUrls == { <<"x",".","c","o","m","/","s","c","a","n",".","p","d","f",".","h","t","m","l">> }

KeptUrls(list, urls) == LET Kept(r) == r.url \in urls IN UrlsOf(SelectSeq(list, Kept))

SearchSucceeded == method = "POST" /\ sresp.code = 200 /\ upstream.parsed

\* C8 as claimed: the results are the first ten upstream results, in upstream
\* order, whose URL path ends in .pdf or has a segment ending in .pdf, or
\* whose title or description contains "pdf".
C8_ResultsArePdf ==
    SearchSucceeded =>
        UrlsOf(sresp.results) = FirstTen(KeptUrls(upstream.data.results, ClaimedPdfUrls))

\* C8 as amended: as claimed, and a result whose URL does not parse is also
\* kept when the URL contains ".pdf".
C8_ResultsArePdfOrUnparsed ==
    SearchSucceeded =>
        UrlsOf(sresp.results) =
            FirstTen(KeptUrls(upstream.data.results, ClaimedPdfUrls \cup UnparsedPdfUrls))

\* C8 witness: more than ten upstream results are PDF-looking, some are not,
\* and ten were returned, one of them by the path-segment rule.
C8_Witness ==
    /\ SearchSucceeded
    /\ Len(sresp.results) = 10
    /\ Len(upstream.data.results) > 10
    /\ \E i \in 1..10 : sresp.results[i].url = <<"h","t","t","p","s",":","/","/","x",".","c","o","m","/","r","e","p","o","r","t",".","p","d","f","/","v","i","e","w">>
    /\ \E i \in 1..Len(upstream.data.results) :
           upstream.data.results[i].url = <<"h","t","t","p","s",":","/","/","x",".","c","o","m","/","r","e","p","o","r","t">>

\* a query that is missing, empty, white space only or not a string
BadQuery(q) == q.kind # "string" \/ q.text \in {<<>>, <<" "," ">>}

\* an origin-valid POST that has been answered
PostAnswered == method = "POST" /\ cors.valid /\ spc = "done"

\* the status of the answer, given the status `other` for an upstream status
\* that is not ok and neither 401 nor 429
AnswerCode(other) ==
    IF query = NoQuery THEN 500
    ELSE IF BadQuery(query) THEN 400
    ELSE IF ~env.hasApiKey THEN 500
    ELSE IF upstream.status = -1 THEN 500
    ELSE IF upstream.status = 401 THEN 401
    ELSE IF upstream.status = 429 THEN 429
    ELSE IF upstream.status # 200 THEN other
    ELSE IF ~upstream.parsed THEN 500
    ELSE 200

FailureShape ==
    /\ sresp.code # 200 => sresp.fields = {"error"}
    /\ (query # NoQuery /\ BadQuery(query)) => fetches = <<>>

\* C9 as claimed: 400 for a bad query (and no upstream call), 401 and 429 for
\* these upstream statuses, 500 for every other failure; every failure
\* response has an error and no results.
C9_FailureStatuses ==
    PostAnswered => sresp.code = AnswerCode(500) /\ FailureShape

\* C9 as amended: as claimed, except that an upstream status that is not ok
\* and neither 401 nor 429 is answered with that same status.
C9_FailureStatusesPassThrough ==
    PostAnswered => sresp.code = AnswerCode(upstream.status) /\ FailureShape

\* C9 witness: an upstream 503 was answered with 503 and an error.
C9_Witness ==
    /\ PostAnswered
    /\ upstream.status = 503
    /\ sresp.code = 503 /\ sresp.fields = {"error"}

=============================================================================
